---- MODULE Spec2Model ----
(***************************************************************************)
(* The batch ingestion orchestrator of the tender pipeline                 *)
(* (processTendersFromTable in src/src/services/processingService.js) with *)
(* the normalizer it drives (normalizeTender and friends of the            *)
(* tenderNormalizer module, src/unnamed/part_002) and the adapter entry    *)
(* point (BaseSourceAdapter.processTender).                                *)
(*                                                                         *)
(* One source table is ingested into the unified store by up to two runs   *)
(* of processTendersFromTable, which may overlap in time.  Every await of  *)
(* the code is a step boundary: the records of a chunk are started by      *)
(* Promise.all and their completions interleave freely.                    *)
(*                                                                         *)
(* Timestamps: 0 is an absent (null) updated_at, 1..MaxTs are the values   *)
(* raw rows and pre-existing unified rows carry, StoreNow is the value the *)
(* store stamps on a row it writes (the writer never supplies updated_at). *)
(* Source ids: 0 is a missing adapter source id, 1..MaxSid are real ids,   *)
(* SynId(p) is the id the orchestrator synthesises for position p.         *)
(***************************************************************************)
EXTENDS Integers, Sequences, FiniteSets, Bags, TLC

\* ------------------------------------------------------------ bounds
\* number of rows of the raw source table
MaxCands == 3
\* real source ids are 1..MaxSid
MaxSid == 3
\* raw / pre-existing timestamps are 1..MaxTs
MaxTs == 2
\* largest positive limit a caller passes
MaxLimit == 1
\* chunk size of the chunk loop; the program's value is 25, scaled down so
\* that a table of MaxCands rows spans more than one chunk
chunkSize == 2
\* how often one caller evaluates the same record
MaxCalls == 3
\* longest response text, in pieces
MaxPieces == 5
\* longest title, in words after its prefixes
MaxWords == 3
\* how often the enhancement pass is applied to a tender
MaxPasses == 2
\* how often a keyword occurs in a description
MaxMentions == 2
\* the largest tendersPerSource a caller passes
MaxPerSource == 4
\* how many rounds of the round-robin loop are followed
MaxRounds == 4
\* longest money string a record carries, in characters
MaxLen == 3
\* the largest magnitude extractNumericValue lets through; the program's value
\* is 1e15, scaled down so that a string of MaxLen characters can exceed it
MaxAbs == 100

\* the concurrency of the stagger delay; the program's value is 5, scaled down
\* with chunkSize so that a chunk holds more records than it, as 25 does
concurrency == 1

\* ------------------------------------------------------------ constants
\* the delay of the callback of chunk index (line 472), in milliseconds
staggerDelay(index) == (index \div concurrency) * 100

NoId == 0
NoTs == 0
Absent == -1
StoreNow == MaxTs + 1

SynId(p) == MaxSid + 1 + p

Runs == {"r1", "r2"}

\* the caller's first call
FirstRun == "r1"

Tables == {"wb", "sam_gov", "ungm"}

Contents == {"minimal", "foreign"}

Limits == 0..MaxLimit

Min(a, b) == IF a < b THEN a ELSE b

VARIABLES
    tableName,      \* the source table being ingested
    hasLastProcessed, \* the raw table has a last_processed_at column
    raw,            \* the raw table: sequence of rows, newest first
    lastProcessed,  \* raw row positions whose last_processed_at is set
    unified,        \* the unified store: a bag of rows
    runsLeft,       \* how many more runs the caller starts
    overlap,        \* the caller starts a run while another is in progress
    plan,           \* the arguments the caller passes: [limit, forceReprocess, pre]
    run,            \* per run: the locals of processTendersFromTable
    normalizationStats, \* global.normalizationStats: the process-wide skip counters
    engine,         \* a caller of the decision engine alone: its record and what it got
    record,         \* one record on its way from the normalizer to the store: its fields
    consoleLog,     \* the global console.log: the original function or a capturing
                    \* wrapper; "unobserved" where a specification does not follow it
    allSources,     \* the locals of a processTendersFromAllSources call
    response,       \* a completion text and what the parser makes of it
    enhancement     \* a normalized tender under the enhancement pass

vars == <<tableName, hasLastProcessed, raw, lastProcessed, unified, runsLeft,
          overlap, plan, run, normalizationStats, engine, record, consoleLog,
          allSources, response, enhancement>>


\* ------------------------------------------------------------ raw records
\* What the decision engine reads of a raw record, by content class:
\* "minimal" is a short title with a short description, "foreign" a long
\* non-English record with most canonical fields missing.
ContentFeatures(content) ==
    [language |-> "other",
     missing  |-> 6,
     english  |-> FALSE,
     strongly |-> FALSE,
     minimal  |-> (content = "minimal"),
     huge     |-> FALSE,
     quality  |-> FALSE]

\* Every combination of what the decision engine reads of a record: the
\* declared language, the number of missing critical fields (at most 2, at most
\* 5, more), isEnglishText and isStronglyEnglish of its texts, the two size
\* tests (a description is not both short and huge) and the quality test.
Features ==
    {f \in [language : {"en", "other"}, missing : {2, 5, 6}, english : BOOLEAN,
            strongly : BOOLEAN, minimal : BOOLEAN, huge : BOOLEAN, quality : BOOLEAN] :
        ~(f.minimal /\ f.huge)}

\* the features of a tender: of a raw row by its content class, of a record
\* given by its features the record itself
FeaturesOf(tender) ==
    IF "content" \in DOMAIN tender THEN ContentFeatures(tender.content) ELSE tender

\* every source name the decision engine knows, and one it does not
Sources ==
    {"wb", "adb", "afd_tenders", "sam_gov", "un_procurement", "dgmarket", "iadb",
     "ted", "ungm"}

RawRow == [source_id : 0..MaxSid, updated_at : 0..MaxTs, content : Contents]

\* adapter.getSourceId(tender): the id, or a falsy value when the raw record lacks it
getSourceId(tender) == tender.source_id

\* ------------------------------------------------------------ decision engine
\* the rule cascade of evaluateNormalizationNeeds (lines 1292-1402), in the
\* order of the code, on the features f of a record.
decisionRules(f, sourceTable) ==
    LET d0 == [needsLLM |-> TRUE, reason |-> "default"]
        d1 == IF sourceTable \in {"sam_gov", "un_procurement"}
                 THEN [needsLLM |-> FALSE, reason |-> "source"]
              ELSE IF sourceTable = "dgmarket" /\ f.language = "en"
                 THEN [needsLLM |-> FALSE, reason |-> "source-language"]
              ELSE IF sourceTable = "iadb" /\ (f.language = "en" \/ f.english)
                 THEN [needsLLM |-> FALSE, reason |-> "source-language"]
              ELSE IF sourceTable = "ted" /\ f.english
                 THEN [needsLLM |-> FALSE, reason |-> "source-language"]
              ELSE d0
        d2 == IF d1.needsLLM /\ f.missing <= 2
                 THEN [needsLLM |-> FALSE, reason |-> "complete"]
              ELSE IF d1.needsLLM /\ f.missing <= 5 /\ (f.language = "en" \/ f.english)
                 THEN [needsLLM |-> FALSE, reason |-> "english-some-missing"]
              ELSE d1
        d3 == IF d2.needsLLM /\ (f.language = "en" \/ f.strongly)
                 THEN [needsLLM |-> FALSE, reason |-> "strongly-english"]
              ELSE d2
        d4 == IF f.minimal THEN [needsLLM |-> FALSE, reason |-> "minimal"] ELSE d3
        d5 == IF f.huge THEN [needsLLM |-> FALSE, reason |-> "huge"] ELSE d4
        d6 == IF d5.needsLLM /\ f.quality
                 THEN [needsLLM |-> FALSE, reason |-> "quality"]
              ELSE d5
    IN  IF sourceTable \in {"wb", "adb", "afd_tenders"}
           THEN [needsLLM |-> FALSE, reason |-> "fast-source"]
        ELSE d6

\* a decision engine that feeds on its own counters: once two records have
\* skipped the LLM it asks for the LLM
evaluateNormalizationNeeds_Feedback(tender, sourceTable) ==
    IF normalizationStats.skippedLLM >= 2
       THEN [needsLLM |-> TRUE, reason |-> "default"]
    ELSE decisionRules(FeaturesOf(tender), sourceTable)

\* evaluateNormalizationNeeds(tender, sourceTable): the decision it returns
\* (what it does to the counters is trackNormalization).
evaluateNormalizationNeeds(tender, sourceTable) ==
    decisionRules(FeaturesOf(tender), sourceTable)

\* global.normalizationStats before the first call that skips the LLM
NoStats == [total |-> 0, skippedLLM |-> 0, sources |-> [src \in Sources |-> 0]]

\* the performance tracking at the end of evaluateNormalizationNeeds (lines
\* 1403-1439): a decision that skips the LLM adds one to the global counters and
\* to the source's own pair of counters (both of a pair move together, one
\* number stands for the pair); the counters are read only to be logged.
trackNormalization(stats, sourceTable, result) ==
    IF result.needsLLM THEN stats
    ELSE [total |-> stats.total + 1,
          skippedLLM |-> stats.skippedLLM + 1,
          sources |-> [stats.sources EXCEPT ![sourceTable] = @ + 1]]

\* the counters after n calls of evaluateNormalizationNeeds(tender, sourceTable)
RECURSIVE trackCalls(_, _, _, _)
trackCalls(stats, tender, sourceTable, n) ==
    IF n = 0 THEN stats
    ELSE trackCalls(trackNormalization(stats, sourceTable,
                                       evaluateNormalizationNeeds(tender, sourceTable)),
                    tender, sourceTable, n - 1)

\* shouldUseFastNormalization: the decision object carries no language,
\* minimalContent or complexFields, so only the source tests can answer true.
shouldUseFastNormalization(sourceTable, normalizationNeeds) ==
    sourceTable \in {"sam_gov", "wb", "adb"}

\* ------------------------------------------------------------ normalizer
\* fallbackNormalizeTender calls extractTenderType, extractTenderStatus and
\* extractNumericValue, none of which the module defines or imports: building
\* the object literal throws a ReferenceError.
fallbackNormalizeTender(tender, sourceTable) == "throw"

\* fallbackWithMetadata: the fallback's result with normalized_method = method,
\* or, when the fallback threw, the minimal object with status 'error'.
fallbackWithMetadata(tender, sourceTable, method) ==
    IF fallbackNormalizeTender(tender, sourceTable) = "throw"
       THEN [kind |-> "value", status |-> "error", normalized_method |-> "method-error"]
    ELSE IF sourceTable \in {"adb", "afd_tenders"} /\ method = "rule-based-fast"
       THEN [kind |-> "value", status |-> "ok", normalized_method |-> "rule-based-fast"]
    ELSE [kind |-> "value", status |-> "ok", normalized_method |-> method]

\* fastNormalizeTender: the dedicated sources go through fallbackNormalizeTender,
\* the others through the generic field mapping.
fastNormalizeTender(tender, sourceTable) ==
    IF sourceTable \in {"sam_gov", "ted", "iadb", "un_procurement", "adb", "afd_tenders"}
       THEN fallbackNormalizeTender(tender, sourceTable)
    ELSE "ok"

\* What the completion service can answer to one queryLLM call.
LlmAnswers == {"ok", "empty", "unparsable", "quota", "error"}

\* normalizeTender(tender, sourceTable): the settled value of the promise, given
\* the completion service's answer should it be asked.  The fast branch does not
\* await fastNormalizeTender: the metadata is set on the promise object and lost
\* (normalized_method stays undefined, "none"), and a rejection of that promise
\* escapes the try block.
normalizeTender(tender, sourceTable, answer) ==
    IF ~evaluateNormalizationNeeds(tender, sourceTable).needsLLM
       THEN IF fastNormalizeTender(tender, sourceTable) = "throw"
               THEN [kind |-> "reject", status |-> "none", normalized_method |-> "none"]
            ELSE [kind |-> "value", status |-> "ok", normalized_method |-> "none"]
    ELSE CASE answer = "ok" -> [kind |-> "value", status |-> "ok", normalized_method |-> "llm"]
           [] answer = "empty" -> fallbackWithMetadata(tender, sourceTable, "empty-llm-response")
           [] answer = "unparsable" -> fallbackWithMetadata(tender, sourceTable, "json-parse-failure")
           [] answer = "quota" -> fallbackWithMetadata(tender, sourceTable, "api-credit-issue")
           [] OTHER -> fallbackWithMetadata(tender, sourceTable, "error")

\* BaseSourceAdapter.processTender(tender, normalizeTenderWithLLM): two
\* parameters; the third argument the orchestrator passes (useFastNormalization,
\* or true on the fallback call) is dropped, and normalizeTender decides anew.
processTender(tender, sourceTable, useFast, answer) ==
    normalizeTender(tender, sourceTable, answer)

\* does a processTender call ask the completion service?
asksLLM(tender, sourceTable, useFast) ==
    evaluateNormalizationNeeds(tender, sourceTable).needsLLM


\* ------------------------------------------------------------ unified store
\* A row of unified_tenders for this source_table.  from is the raw position
\* whose data the row holds (0 for a row that was there before the runs).
StoreRow(sid, ts, method, from) ==
    [source_id |-> sid, updated_at |-> ts, normalized_method |-> method, from |-> from]

Rows(store) == BagToSet(store)

HasKey(store, sid) == \E row \in Rows(store) : row.source_id = sid

RowOf(store, sid) == CHOOSE row \in Rows(store) : row.source_id = sid

\* number of rows of the store with the compound key (tableName, sid)
KeyCount(store, sid) ==
    LET ks == {row \in Rows(store) : row.source_id = sid}
        F[S \in SUBSET ks] ==
            IF S = {} THEN 0
            ELSE LET x == CHOOSE y \in S : TRUE IN CopiesIn(x, store) + F[S \ {x}]
    IN  F[ks]

\* .insert(normalizedTender) without the store's verdict: the row is added and
\* stamped by the store.
AddRow(store, sid, method, from) ==
    store (+) SetToBag({StoreRow(sid, StoreNow, method, from)})

\* an insert into a store that has no uniqueness constraint
StoreInsert_Unconstrained(store, sid, method, from) ==
    [code |-> "ok", store |-> AddRow(store, sid, method, from)]

\* insert against the uniqueness constraint on (source_table, source_id):
\* "23505" when the key is there, else the store with the row added.
StoreInsert(store, sid, method, from) ==
    IF HasKey(store, sid)
       THEN [code |-> "23505", store |-> store]
    ELSE [code |-> "ok", store |-> AddRow(store, sid, method, from)]

\* .update(normalizedTender).eq('source_table', t).eq('source_id', sid): every
\* row with the key takes the new fields (an undefined normalized_method is not
\* sent, the column keeps its value); no row matching is not an error.  The
\* writer sends no updated_at: whether the store refreshes it on update
\* (touch) is the store's business.
StoreUpdate(store, sid, method, from, touch) ==
    LET olds == {row \in Rows(store) : row.source_id = sid}
        keep == [row \in Rows(store) \ olds |-> store[row]]
        new(o) == StoreRow(sid, IF touch THEN StoreNow ELSE o.updated_at,
                           IF method = "none" THEN o.normalized_method ELSE method, from)
    IN  IF olds = {} THEN store
        ELSE keep (+) BagUnion({[x \in {new(o)} |-> store[o]] : o \in olds})

\* select source_id, updated_at ... in(source_id, ids): the presence/freshness
\* map, Absent for an id with no row
ExistingMapOf(store, ids) ==
    [s \in 1..MaxSid |-> IF s \in ids /\ HasKey(store, s)
                            THEN RowOf(store, s).updated_at ELSE Absent]

\* ------------------------------------------------------------ run state
RecInit ==
    [pc |-> "wait", sourceId |-> NoId, useFast |-> FALSE, llmCalls |-> 0,
     timedOut |-> FALSE, path |-> "none", method |-> "none", outcome |-> "none",
     storeFail |-> FALSE, retried |-> FALSE, stale |-> FALSE,
     originalConsoleLog |-> "original", \* the console.log saved at line 506
     abandoned |-> "none",              \* the call the timeout left behind: pending, settled
     writes |-> 0]                      \* successful writes of this record to the store

\* the locals of a callback that has returned
RecDone == [RecInit EXCEPT !.pc = "done"]

RunInit ==
    [pc |-> "idle", limit |-> 0, forceReprocess |-> FALSE, pre |-> FALSE,
     after |-> FALSE, i |-> 0, tendersToProcess |-> <<>>,
     existingTenderMap |-> [s \in 1..MaxSid |-> Absent],
     processedCount |-> 0, skippedCount |-> 0, errorCount |-> 0,
     fallbackCount |-> 0, fastNormalizationCount |-> 0, updatedCount |-> 0,
     attemptCount |-> 0,
     filterSkips |-> 0,    \* the skips the filter counted before the chunk loop
     downgrades |-> 0,     \* records downgraded from the LLM path to the fallback
     fastRecords |-> 0,    \* records normalized by the fast path
     quota |-> FALSE,      \* a completion-service call failed with a quota error
     callAfterQuota |-> FALSE, \* ... and a call was made after that
     rec |-> [k \in 1..MaxCands |-> RecInit]]

\* the filter of lines 424-459: does the candidate survive?
Survives(tender, existing, forceReprocess) ==
    LET sourceId == getSourceId(tender) IN
    IF sourceId = NoId THEN FALSE
    ELSE IF existing[sourceId] = Absent THEN TRUE
    ELSE IF forceReprocess THEN TRUE
    ELSE IF tender.updated_at # NoTs /\ existing[sourceId] # NoTs
       THEN tender.updated_at > existing[sourceId]
    ELSE FALSE

\* ... and is it counted as skipped by the filter?
FilterSkips(tender, existing, forceReprocess) ==
    LET sourceId == getSourceId(tender) IN
    /\ sourceId # NoId
    /\ existing[sourceId] # Absent
    /\ ~forceReprocess
    /\ ~Survives(tender, existing, forceReprocess)

\* positions of a sequence of positions that satisfy Test
Positions(n) == [p \in 1..n |-> p]

\* the loop condition of the chunk loop (line 465)
LoopCondition(i, len, limit, processedCount) ==
    i < len /\ (limit <= 0 \/ processedCount < limit)

\* the break of lines 666-669
BreakCondition(i, len, limit, processedCount) ==
    processedCount >= limit \/ i + chunkSize >= len


\* ------------------------------------------------------------ helpers on run state
Tender(r, k) == raw[run[r].tendersToProcess[k]]

ChunkOf(r) ==
    (run[r].i + 1) .. Min(run[r].i + chunkSize, Len(run[r].tendersToProcess))

InMap(existing, sid) == sid \in 1..MaxSid /\ existing[sid] # Absent

\* a record's failure that ends the whole run
RecordError_Abort(rn, k) ==
    [rn EXCEPT !.errorCount = @ + 1,
               !.pc = "done",
               !.rec[k].pc = "done",
               !.rec[k].outcome = "error"]

\* the catch blocks of lines 653-657 and 658-662, and the status 'error' return
\* of lines 600-604: the record is counted as an error and the callback returns
RecordError(rn, k) ==
    [rn EXCEPT !.errorCount = @ + 1,
               !.rec[k].pc = "done",
               !.rec[k].outcome = "error"]

\* a write that the store accepted and that leaves the record where it was
RecordWrite_Again(rn, k, outcome, pc) ==
    [rn EXCEPT !.processedCount = @ + 1,
               !.updatedCount = IF outcome = "updated" THEN @ + 1 ELSE @,
               !.rec[k].writes = @ + 1,
               !.rec[k].outcome = outcome]

\* a write that the store accepted and that no counter records
RecordWrite_Uncounted(rn, k, outcome, pc) ==
    [rn EXCEPT !.rec[k].writes = @ + 1,
               !.rec[k].outcome = outcome,
               !.rec[k].pc = pc]

\* the store accepted the update (lines 619-623) or the insert (line 642): the
\* record is counted as processed, an update as updated too, and the callback
\* goes on to pc
RecordWrite(rn, k, outcome, pc) ==
    [rn EXCEPT !.processedCount = @ + 1,
               !.updatedCount = IF outcome = "updated" THEN @ + 1 ELSE @,
               !.rec[k].writes = @ + 1,
               !.rec[k].outcome = outcome,
               !.rec[k].pc = pc]

\* ------------------------------------------------------------ actions
\* processTendersFromTable up to the chunk loop (lines 296-462): the candidate
\* fetch, the presence/freshness map and the filter.
StartRun(r) ==
    /\ run[r].pc = "idle"
    /\ runsLeft > 0
    /\ r = FirstRun \/ run[FirstRun].pc # "idle"
    /\ runsLeft' = runsLeft - 1
    /\ overlap \/ \A q \in Runs : run[q].pc \in {"idle", "done", "failed"}
    /\ \E args \in plan, fetch \in {"ok", "error"} :
         LET limit == args.limit
             force == args.forceReprocess
             pre == args.pre
             all == Positions(Len(raw))
             candidates ==
                 IF pre THEN all
                 ELSE SelectSeq(all, LAMBDA p :
                          ~(hasLastProcessed /\ ~force /\ p \in lastProcessed))
             ids == {getSourceId(raw[candidates[j]]) : j \in 1..Len(candidates)} \ {NoId}
             existing == ExistingMapOf(unified, ids)
             todo == IF pre THEN candidates
                     ELSE SelectSeq(candidates, LAMBDA p : Survives(raw[p], existing, force))
             skips == IF pre THEN {}
                      ELSE {j \in 1..Len(candidates) :
                               FilterSkips(raw[candidates[j]], existing, force)}
             marks == IF hasLastProcessed
                         THEN {candidates[j] : j \in {x \in skips :
                                   raw[candidates[x]].updated_at # NoTs
                                   /\ existing[getSourceId(raw[candidates[x]])] # NoTs}}
                      ELSE {}
             started == [RunInit EXCEPT !.limit = limit, !.forceReprocess = force,
                                        !.pre = pre,
                                        !.after = (\E q \in Runs \ {r} : run[q].pc = "done")]
         IN  /\ (pre => fetch = "ok")
             /\ IF fetch = "error"
                   THEN /\ run' = [run EXCEPT ![r] = [started EXCEPT !.pc = "failed"]]
                        /\ UNCHANGED lastProcessed
                ELSE IF ~pre /\ Len(candidates) = 0
                   THEN /\ run' = [run EXCEPT ![r] = [started EXCEPT !.pc = "done"]]
                        /\ UNCHANGED lastProcessed
                ELSE /\ run' = [run EXCEPT ![r] =
                            [started EXCEPT
                                !.tendersToProcess = todo,
                                !.existingTenderMap = existing,
                                !.skippedCount = Cardinality(skips),
                                !.filterSkips = Cardinality(skips),
                                !.pc = IF LoopCondition(0, Len(todo), limit, 0)
                                          THEN "chunk" ELSE "done"]]
                     /\ lastProcessed' = lastProcessed \cup marks
    /\ UNCHANGED <<tableName, hasLastProcessed, overlap, plan, raw, unified, normalizationStats, engine, record, consoleLog, allSources, response, enhancement>>

\* the callback of chunk.map up to its first await of the normalization
\* (lines 470-540): the attempt is counted, the decision taken and
\* adapter.processTender called.  The stagger timers of line 472 fire in the
\* order of their delays and, for equal delays, in index order, so the
\* callbacks begin in index order; a timer waits for no other callback.  The decision engine is
\* called twice: at line 485 and by normalizeTender itself.  Lines 505-521 save
\* the current console.log and put a capturing wrapper in its place; the
\* wrapper only feeds the log lines, so the specifications of two runs leave
\* console.log unobserved.
Begin(r, k) ==
    /\ run[r].pc = "chunk"
    /\ k \in ChunkOf(r)
    /\ run[r].rec[k].pc = "wait"
    /\ \A j \in ChunkOf(r) :
          (j < k /\ staggerDelay(j - run[r].i - 1) <= staggerDelay(k - run[r].i - 1))
              => run[r].rec[j].pc # "wait"
    /\ LET tender == Tender(r, k)
           sourceId == IF getSourceId(tender) # NoId THEN getSourceId(tender)
                       ELSE SynId(k - 1)
           needs == evaluateNormalizationNeeds(tender, tableName)
           useFast == shouldUseFastNormalization(tableName, needs)
       IN  run' = [run EXCEPT ![r].attemptCount = @ + 1,
                              ![r].callAfterQuota =
                                  @ \/ (run[r].quota /\ asksLLM(tender, tableName, useFast)),
                              ![r].rec[k].pc = "norm",
                              ![r].rec[k].originalConsoleLog = consoleLog,
                              ![r].rec[k].sourceId = sourceId,
                              ![r].rec[k].useFast = useFast,
                              ![r].rec[k].llmCalls =
                                  IF asksLLM(tender, tableName, useFast) THEN 1 ELSE 0]
    /\ normalizationStats' = trackCalls(normalizationStats, Tender(r, k), tableName, 2)
    /\ consoleLog' = IF consoleLog = "unobserved" THEN consoleLog ELSE "wrapper"
    /\ UNCHANGED <<tableName, hasLastProcessed, overlap, plan, raw, lastProcessed, unified, runsLeft, engine, record, allSources, response, enhancement>>

\* promiseWithTimeout rejects (lines 534-538, 966-980) while the first
\* processTender call is still waiting for the completion service: the catch of
\* lines 542-547 calls adapter.processTender(tender, normalizeTender, true).
NormTimeout(r, k) ==
    /\ run[r].pc = "chunk"
    /\ k \in ChunkOf(r)
    /\ run[r].rec[k].pc = "norm"
    /\ ~run[r].rec[k].useFast
    /\ run[r].rec[k].llmCalls > 0
    /\ run' = [run EXCEPT ![r].downgrades = @ + 1,
                          ![r].callAfterQuota =
                              @ \/ (run[r].quota /\ asksLLM(Tender(r, k), tableName, TRUE)),
                          ![r].rec[k].pc = "retry",
                          ![r].rec[k].timedOut = TRUE,
                          ![r].rec[k].abandoned = "pending",
                          ![r].rec[k].llmCalls =
                              IF asksLLM(Tender(r, k), tableName, TRUE) THEN @ + 1 ELSE @]
    /\ normalizationStats' = trackCalls(normalizationStats, Tender(r, k), tableName, 1)
    /\ UNCHANGED <<tableName, hasLastProcessed, overlap, plan, raw, lastProcessed, unified, runsLeft, engine, record, consoleLog, allSources, response, enhancement>>

\* the processTender call that the timeout left behind settles: Promise.race
\* has already settled (lines 975-978), so its value or error goes nowhere.
\* The step changes nothing any other step reads, so it is followed at its
\* latest only: after the callbacks of its chunk have returned.
AbandonedSettle(r, k) ==
    /\ run[r].pc = "chunk"
    /\ k \in ChunkOf(r)
    /\ run[r].rec[k].abandoned = "pending"
    /\ \A j \in ChunkOf(r) : run[r].rec[j].pc = "done"
    /\ run' = [run EXCEPT ![r].rec[k].abandoned = "settled"]
    /\ UNCHANGED <<tableName, hasLastProcessed, overlap, plan, raw, lastProcessed, unified, runsLeft, normalizationStats, engine, record, consoleLog, allSources, response, enhancement>>

\* the awaited processTender settles (lines 528-551), then lines 553-607: the
\* clean-up, the status 'error' test and the choice of update or insert.  When
\* the try statement of lines 528-551 is left, by its value or by the error of
\* the retry, its finally puts the saved console.log back.
NormSettle(r, k) ==
    /\ run[r].pc = "chunk"
    /\ k \in ChunkOf(r)
    /\ run[r].rec[k].pc \in {"norm", "retry"}
    /\ \E answer \in (IF run[r].rec[k].llmCalls > 0 THEN LlmAnswers ELSE {"ok"}) :
         LET me == run[r].rec[k]
             res == processTender(Tender(r, k), tableName,
                                  IF me.pc = "norm" THEN me.useFast ELSE TRUE, answer)
             path == IF me.pc = "retry" \/ res.status = "error" THEN "fallback"
                     ELSE IF res.normalized_method = "llm" THEN "llm"
                     ELSE "fast"
             tally == [run[r] EXCEPT
                          !.quota = @ \/ (me.llmCalls > 0 /\ answer = "quota"),
                          !.downgrades = IF me.llmCalls > 0 /\ answer # "ok" /\ ~me.timedOut
                                            THEN @ + 1 ELSE @,
                          !.fastRecords = IF res.kind = "value" /\ path = "fast"
                                             THEN @ + 1 ELSE @]
             next ==
                 IF res.kind = "reject"
                    THEN IF me.pc = "norm"
                            THEN [run[r] EXCEPT
                                     !.rec[k].pc = "retry",
                                     !.callAfterQuota =
                                         @ \/ (run[r].quota
                                               /\ asksLLM(Tender(r, k), tableName, TRUE)),
                                     !.rec[k].llmCalls =
                                         IF asksLLM(Tender(r, k), tableName, TRUE)
                                            THEN @ + 1 ELSE @]
                         ELSE RecordError([tally EXCEPT !.rec[k].path = "fallback"], k)
                 ELSE IF res.status = "error"
                    THEN RecordError([tally EXCEPT !.rec[k].path = path,
                                                   !.rec[k].method = res.normalized_method], k)
                 ELSE [tally EXCEPT
                          !.rec[k].path = path,
                          !.rec[k].method = res.normalized_method,
                          !.rec[k].pc =
                              IF InMap(run[r].existingTenderMap, me.sourceId)
                                 THEN "upd" ELSE "ins"]
         IN  run' = [run EXCEPT ![r] =
                        IF next.rec[k].pc = "retry" THEN next
                        ELSE [next EXCEPT !.rec[k].originalConsoleLog = "original"]]
    /\ normalizationStats' =
           IF run'[r].rec[k].pc = "retry" /\ run[r].rec[k].pc = "norm"
              THEN trackCalls(normalizationStats, Tender(r, k), tableName, 1)
           ELSE normalizationStats
    /\ consoleLog' =
           IF run'[r].rec[k].pc = "retry" /\ run[r].rec[k].pc = "norm"
              THEN consoleLog
           ELSE run[r].rec[k].originalConsoleLog
    /\ UNCHANGED <<tableName, hasLastProcessed, overlap, plan, raw, lastProcessed, unified, runsLeft, engine, record, allSources, response, enhancement>>

\* the update of lines 611-624 answers
UpdateSettle(r, k) ==
    /\ run[r].pc = "chunk"
    /\ k \in ChunkOf(r)
    /\ run[r].rec[k].pc = "upd"
    /\ \E updateError \in BOOLEAN, touch \in BOOLEAN :
         LET me == run[r].rec[k]
             tender == Tender(r, k)
             isStale == /\ HasKey(unified, me.sourceId)
                        /\ ~(tender.updated_at # NoTs
                             /\ RowOf(unified, me.sourceId).updated_at # NoTs
                             /\ tender.updated_at > RowOf(unified, me.sourceId).updated_at)
         IN  IF updateError
                THEN /\ run' = [run EXCEPT ![r].rec[k].pc = "ins",
                                           ![r].rec[k].storeFail = TRUE,
                                           ![r].rec[k].retried = TRUE]
                     /\ UNCHANGED unified
             ELSE /\ unified' = StoreUpdate(unified, me.sourceId, me.method,
                                            run[r].tendersToProcess[k], touch)
                  /\ run' = [run EXCEPT ![r] =
                                RecordWrite([run[r] EXCEPT !.rec[k].stale = isStale],
                                            k, "updated", "done")]
    /\ UNCHANGED <<tableName, hasLastProcessed, overlap, plan, raw, lastProcessed, runsLeft, normalizationStats, engine, record, consoleLog, allSources, response, enhancement>>

\* the insert of lines 626-642 answers
InsertSettle(r, k) ==
    /\ run[r].pc = "chunk"
    /\ k \in ChunkOf(r)
    /\ run[r].rec[k].pc = "ins"
    /\ \E storeError \in BOOLEAN :
         LET me == run[r].rec[k]
             res == StoreInsert(unified, me.sourceId, me.method, run[r].tendersToProcess[k])
         IN  IF storeError
                THEN /\ run' = [run EXCEPT ![r] =
                                   RecordError([run[r] EXCEPT !.rec[k].storeFail = TRUE], k)]
                     /\ UNCHANGED unified
             ELSE IF res.code = "23505"
                THEN /\ run' = [run EXCEPT ![r].skippedCount = @ + 1,
                                           ![r].rec[k].pc = "done",
                                           ![r].rec[k].outcome = "skipped"]
                     /\ UNCHANGED unified
             ELSE /\ unified' = res.store
                  /\ run' = [run EXCEPT ![r] =
                                RecordWrite(run[r], k, "inserted",
                                            IF hasLastProcessed THEN "mark" ELSE "done")]
    /\ UNCHANGED <<tableName, hasLastProcessed, overlap, plan, raw, lastProcessed, runsLeft, normalizationStats, engine, record, consoleLog, allSources, response, enhancement>>

\* the last_processed_at update of lines 644-652 answers
MarkSettle(r, k) ==
    /\ run[r].pc = "chunk"
    /\ k \in ChunkOf(r)
    /\ run[r].rec[k].pc = "mark"
    /\ lastProcessed' = lastProcessed \cup {run[r].tendersToProcess[k]}
    /\ run' = [run EXCEPT ![r].rec[k].pc = "done"]
    /\ UNCHANGED <<tableName, hasLastProcessed, overlap, plan, raw, unified, runsLeft, normalizationStats, engine, record, consoleLog, allSources, response, enhancement>>

\* Promise.all of the chunk resolves (line 469), then the break test of lines
\* 666-669, the loop step and the loop condition of line 465
ChunkEnd(r) ==
    /\ run[r].pc = "chunk"
    /\ \A k \in ChunkOf(r) : run[r].rec[k].pc = "done"
    /\ LET len == Len(run[r].tendersToProcess)
           me == [run[r] EXCEPT !.rec = [k \in 1..MaxCands |->
                                   IF k \in ChunkOf(r) THEN RecDone ELSE @[k]]]
       IN  IF BreakCondition(me.i, len, me.limit, me.processedCount)
              THEN run' = [run EXCEPT ![r] = [me EXCEPT !.pc = "done"]]
           ELSE IF LoopCondition(me.i + chunkSize, len, me.limit, me.processedCount)
              THEN run' = [run EXCEPT ![r] = [me EXCEPT !.i = @ + chunkSize]]
           ELSE run' = [run EXCEPT ![r] = [me EXCEPT !.pc = "done"]]
    /\ UNCHANGED <<tableName, hasLastProcessed, overlap, plan, raw, lastProcessed, unified, runsLeft, normalizationStats, engine, record, consoleLog, allSources, response, enhancement>>

Next ==
    \E r \in Runs :
        \/ StartRun(r)
        \/ ChunkEnd(r)
        \/ \E k \in 1..MaxCands :
              \/ Begin(r, k)
              \/ NormTimeout(r, k)
              \/ AbandonedSettle(r, k)
              \/ NormSettle(r, k)
              \/ UpdateSettle(r, k)
              \/ InsertSettle(r, k)
              \/ MarkSettle(r, k)

\* ------------------------------------------------------------ initial states
\* raw tables, newest first.  The first row carries id 1, any timestamp and
\* either content class; the others carry the older timestamp and either
\* distinct ids (2, then MaxSid) or the dirty pattern (id 1 again, then no id);
\* they are all minimal or all of the first row's class.
RawTables ==
    {t \in [1..MaxCands -> RawRow] :
        /\ t[1].source_id = 1
        /\ t[2].source_id \in {1, 2}
        /\ \A p \in 2..MaxCands :
              /\ t[p].updated_at = Min(t[1].updated_at, 1)
              /\ t[p].content \in {"minimal", t[1].content}
              /\ t[p].content = t[2].content
              /\ p > 2 => t[p].source_id = IF t[2].source_id = 1 THEN NoId ELSE MaxSid}

\* the store before the runs: empty, or one row with source id 1
InitStores ==
    {EmptyBag} \cup {SetToBag({StoreRow(1, ts, "llm", 0)}) : ts \in {NoTs, 1}}

\* every argument list a caller can pass
Args == [limit : Limits, forceReprocess : BOOLEAN, pre : BOOLEAN]

\* ------------------------------------------------------------ field values
\* A field value is null, a string or a number.  A string is either a word
\* taken whole (s) or, for money, spelled out in characters (c); the empty
\* string is the same value both ways.  A number n stands for n / Unit, so
\* that the fractions a money string of MaxLen characters can spell are exact.
RECURSIVE Pow10(_)
Pow10(k) == IF k = 0 THEN 1 ELSE 10 * Pow10(k - 1)

Unit == Pow10(MaxLen)

Null == [t |-> "null", s |-> "", c |-> <<>>, n |-> 0]

Word(s) == [t |-> "str", s |-> s, c |-> <<>>, n |-> 0]

Spelled(c) == [t |-> "str", s |-> "", c |-> c, n |-> 0]

Num(n) == [t |-> "num", s |-> "", c |-> <<>>, n |-> n]

\* what parseFloat returns for a string that is no number
NaN == [t |-> "nan", s |-> "", c |-> <<>>, n |-> 0]

EmptyString == Word("")

\* JavaScript falsiness: !value
Falsy(value) ==
    \/ value.t \in {"null", "nan"}
    \/ value = EmptyString
    \/ value.t = "num" /\ value.n = 0

Abs(n) == IF n < 0 THEN -n ELSE n

\* the characters of a money string: a digit, the decimal point, the minus
\* sign, the thousands separator, and "$" for any character the regular
\* expressions of extractNumericValue remove
Digits == {"1"}

DigitOf(ch) == IF ch = "1" THEN 1 ELSE 0

Alphabet == Digits \cup {".", "-", ",", "$"}

Strings == UNION {[1..k -> Alphabet] : k \in 0..MaxLen}

Drop(c, k) == SubSeq(c, k + 1, Len(c))

\* the longest prefix of digits
RECURSIVE DigitRun(_)
DigitRun(c) ==
    IF c # <<>> /\ Head(c) \in Digits THEN <<Head(c)>> \o DigitRun(Tail(c)) ELSE <<>>

\* the number a run of digits spells
RECURSIVE DigitsValue(_)
DigitsValue(d) ==
    IF d = <<>> THEN 0 ELSE DigitsValue(SubSeq(d, 1, Len(d) - 1)) * 10 + DigitOf(d[Len(d)])

\* parseFloat on a string of digits, points and minus signs: an optional
\* sign, digits, an optional point and digits, the rest ignored; NaN when
\* there is no digit at all
parseFloat(c) ==
    LET neg == c # <<>> /\ Head(c) = "-"
        body == IF neg THEN Tail(c) ELSE c
        int == DigitRun(body)
        rest == Drop(body, Len(int))
        frac == IF rest # <<>> /\ Head(rest) = "." THEN DigitRun(Tail(rest)) ELSE <<>>
        mag == DigitsValue(int) * Unit + DigitsValue(frac) * Pow10(MaxLen - Len(frac))
    IN  IF int = <<>> /\ frac = <<>> THEN NaN ELSE Num(IF neg THEN -mag ELSE mag)

NumericChar(ch) == ch \in Digits \cup {".", "-"}

\* extractNumericValue of processingService.js (lines 36-84).  The replace
\* chain removes currency codes, symbols, separators and at last every
\* character that is no digit, point or minus sign; each earlier replace
\* removes only characters the last one removes too.
extractNumericValue(value) ==
    IF value.t = "null" THEN Null
    ELSE IF value.t # "str" THEN value
    ELSE LET cleanValue == SelectSeq(value.c, NumericChar)
             numericValue == parseFloat(cleanValue)
         IN  IF cleanValue \in {<<>>, <<".">>, <<"-">>} THEN Null
             ELSE IF numericValue.t = "nan" THEN Null
             ELSE IF Abs(numericValue.n) > MaxAbs * Unit THEN Null
             ELSE numericValue

MoneyChar(ch) == ch \in Digits \cup {","}

NotComma(ch) == ch # ","

\* the longest prefix of digits and commas
RECURSIVE MoneyRun(_)
MoneyRun(c) ==
    IF c # <<>> /\ MoneyChar(Head(c)) THEN <<Head(c)>> \o MoneyRun(Tail(c)) ELSE <<>>

\* the first match of /[\d,]+(\.\d+)?/ in a string, <<>> if none (line 1692)
RECURSIVE valueMatch(_)
valueMatch(c) ==
    IF c = <<>> THEN <<>>
    ELSE IF MoneyChar(Head(c))
         THEN LET digits == MoneyRun(c)
                  rest == Drop(c, Len(digits))
                  frac == IF rest # <<>> /\ Head(rest) = "."
                          THEN DigitRun(Tail(rest)) ELSE <<>>
              IN  IF frac = <<>> THEN digits ELSE digits \o <<".">> \o frac
         ELSE valueMatch(Tail(c))

\* extractMoney of the fast path (part_002 lines 1675-1751): the
\* estimated_value it leaves in the target, which starts as null
extractMoney(source) ==
    IF Falsy(source) THEN Null
    ELSE IF source.t = "str"
         THEN LET numericValue == parseFloat(SelectSeq(valueMatch(source.c), NotComma))
              IN  IF valueMatch(source.c) = <<>> \/ numericValue.t = "nan"
                  THEN Null ELSE numericValue
         ELSE source

\* String.prototype.toLowerCase on the status words of the model
toLowerCase(s) ==
    CASE s = "Open" -> "open"
      [] s = "Awarded" -> "awarded"
      [] OTHER -> s

\* the status normalisation of enhanceExtractedFields (part_002 lines 1858-1870)
enhanceStatus(status) ==
    IF Falsy(status) THEN status
    ELSE LET l == toLowerCase(status.s)
         IN  IF l \in {"active", "open", "ongoing", "current"} THEN Word("Open")
             ELSE IF l \in {"closed", "expired", "completed", "inactive", "archived"}
                  THEN Word("Closed")
             ELSE IF l \in {"awarded", "contract awarded", "winner selected"}
                  THEN Word("Awarded")
             ELSE IF l \in {"canceled", "cancelled", "terminated"} THEN Word("Canceled")
             ELSE status

\* the statusMap of an adapter: SamGovAdapter (part_000 lines 57-63) and
\* UngmAdapter (BaseSourceAdapter.js lines 184-193)
statusMap(sourceTable) ==
    IF sourceTable = "sam_gov"
    THEN [active |-> "Open", inactive |-> "Closed", archived |-> "Closed",
          awarded |-> "Awarded", canceled |-> "Canceled"]
    ELSE [active |-> "Open", open |-> "Open", closed |-> "Closed",
          awarded |-> "Awarded", cancelled |-> "Canceled", canceled |-> "Canceled",
          completed |-> "Closed", expired |-> "Closed"]

\* adapter.mapStatus: the mapped word, or the status itself when the map has none
mapStatus(sourceTable, status) ==
    IF Falsy(status) THEN Null
    ELSE IF toLowerCase(status.s) \in DOMAIN statusMap(sourceTable)
         THEN Word(statusMap(sourceTable)[toLowerCase(status.s)])
         ELSE status

\* inferStatusFromDates (lines 1830-1836) and step 5 of fillMissingFields
\* (lines 796-801): a missing status is inferred from the deadline
inferStatusFromDates(status, deadline) ==
    IF Falsy(status) /\ deadline # "none"
    THEN (IF deadline = "future" THEN Word("Open") ELSE Word("Closed"))
    ELSE status

\* step 14 of fillMissingFields (lines 1084-1103): a missing estimated_value
\* is taken from the amount the description mentions, if it mentions one
fillEstimatedValue(value, described) ==
    IF Falsy(value) /\ described.t # "null" THEN described ELSE value

\* the generic fast path on the fields of a raw record (fastNormalizeTender,
\* lines 1550-1627): mapField copies any value but null, extractMoney parses
\* the amount, then the status is inferred and normalised
fastFields(tender) ==
    [city |-> tender.city,
     status |-> inferStatusFromDates(
                    enhanceStatus(inferStatusFromDates(tender.status, tender.deadline)),
                    tender.deadline),
     estimated_value |-> fillEstimatedValue(extractMoney(tender.value), tender.described)]

\* the completion-service path (normalizeTender, lines 1974-1981): the parsed
\* answer passes through fillMissingFields only
llmFields(tender, answer) ==
    [answer EXCEPT !.status = inferStatusFromDates(@, tender.deadline),
                   !.estimated_value = fillEstimatedValue(@, tender.described)]

\* the field names the clean-up treats as numeric (lines 572-576)
schemaFields == {"estimated_value", "award_value", "potential_value"}

\* a clean-up that leaves the empty string of a text field alone
cleanField_KeepEmpty(key, value) ==
    IF key \in schemaFields THEN extractNumericValue(value) ELSE value

\* the body of the clean-up loop for one key (lines 579-589)
cleanField(key, value) ==
    IF value = EmptyString THEN Null
    ELSE IF key \in schemaFields THEN extractNumericValue(value)
    ELSE value

\* the clean-up loop over the keys of a record (lines 578-590)
cleanUp(normalizedTender) ==
    [key \in DOMAIN normalizedTender |-> cleanField(key, normalizedTender[key])]

\* the sourceId of line 476: the adapter's id, or one made of table and index
sourceIdOf(tender, sourceTable) ==
    IF Falsy(tender.id) THEN Word(sourceTable \o "_0") ELSE tender.id

\* normalizedTender.source_table = tableName; .source_id = sourceId (lines 606-607)
withSource(normalizedTender, sourceTable, sourceId) ==
    [key \in DOMAIN normalizedTender \cup {"source_table", "source_id"} |->
        IF key = "source_table" THEN Word(sourceTable)
        ELSE IF key = "source_id" THEN sourceId
        ELSE normalizedTender[key]]

NoFields == [status |-> Null]

\* no record is followed field by field
NoRecord == [pc |-> "none", sourceTable |-> "none", useLLM |-> FALSE,
             tender |-> NoFields, answer |-> NoFields, mappedFields |-> NoFields,
             normalizedTender |-> NoFields, op |-> "none"]

\* ------------------------------------------------------------ all sources
\* a property that a result object does not have
Undefined == -1

\* a JavaScript number: NaN, or the integer n
Number(n) == [nan |-> FALSE, n |-> n]

NotANumber == [nan |-> TRUE, n |-> 0]

\* total += value, where value may be undefined
Plus(total, value) ==
    IF total.nan \/ value = Undefined THEN NotANumber ELSE Number(total.n + value)

\* total += value || 0
PlusOrZero(total, value) ==
    IF total.nan THEN NotANumber
    ELSE Number(total.n + (IF value = Undefined THEN 0 ELSE value))

\* what a processTendersFromTable call returns to the round-robin: the
\* failure object of lines 302-309 and 391-394, which has no counts, or counts
BatchResults ==
    {[success |-> FALSE, processed |-> Undefined, skipped |-> Undefined,
      errors |-> Undefined]}
    \cup [success : {TRUE}, processed : 0..1, skipped : 0..1, errors : 0..1]

\* the sources the registry returns
RegisteredSources == <<"sam_gov", "ungm", "wb">>

\* Math.min(5, Math.floor(tendersPerSource / 4)) (line 202)
batchSizeOf(tendersPerSource) == Min(5, tendersPerSource \div 4)

\* sources.splice(sources.indexOf(sourceTable), 1) (line 241)
splice(sources, sourceTable) ==
    LET at == CHOOSE j \in 1..Len(sources) :
                  /\ sources[j] = sourceTable
                  /\ \A h \in 1..(j - 1) : sources[h] # sourceTable
    IN  SubSeq(sources, 1, at - 1) \o SubSeq(sources, at + 1, Len(sources))

NoTotals == [processed |-> Number(0), skipped |-> Number(0), errors |-> Number(0)]

\* nobody calls processTendersFromAllSources
NoAllSources ==
    [pc |-> "none", tendersPerSource |-> 0, continuous |-> FALSE, batchSize |-> 0,
     remainingTenders |-> 0, sources |-> <<>>, index |-> 0, totalResults |-> NoTotals,
     rounds |-> 0,      \* rounds of the while loop that have ended
     visited |-> <<>>,  \* the sources processed in the round under way
     succeeded |-> 0]   \* the sum of processed over the batches that succeeded

\* ------------------------------------------------------------ response repair
\* A response text is followed as a sequence of lexical pieces; white space
\* between the pieces is not followed (every pattern below allows \s* there).
\* "fence" is a code fence of three backticks (followed by json where it opens
\* the text), "title" the complete property "title":"x", "city" the complete
\* property "city":null, "cut" a property whose string value the service cut
\* off, and "prose" any words that are no JSON.
Pieces == {"fence", "{", "}", "title", "city", ",", "cut", "prose"}

\* the pieces that are a complete property of a known field
Properties == {"title", "city"}

\* a SyntaxError of JSON.parse, or a stage that is not attempted
Failure == [ok |-> FALSE, fields |-> {}]

\* an object with these fields
Object(fields) == [ok |-> TRUE, fields |-> fields]

\* JSON.parse of a text: an object is "{", properties separated by commas, "}"
JSONparse(text) ==
    LET n == Len(text)
        inner == SubSeq(text, 2, n - 1)
    IN  IF /\ n >= 2
           /\ text[1] = "{"
           /\ text[n] = "}"
           /\ \/ inner = <<>>
              \/ /\ Len(inner) % 2 = 1
                 /\ \A i \in 1..Len(inner) :
                        IF i % 2 = 1 THEN inner[i] \in Properties ELSE inner[i] = ","
        THEN Object({inner[i] : i \in {j \in 1..Len(inner) : j % 2 = 1}})
        ELSE Failure

\* lines 320-328: the text between the first fence and the next one, if there
\* is such a text and it is not empty, parsed
fencedBlock(text) ==
    LET fences == {i \in 1..Len(text) : text[i] = "fence"}
        least(S) == CHOOSE i \in S : \A j \in S : i <= j
    IN  IF Cardinality(fences) < 2 THEN Failure
        ELSE LET first == least(fences)
                 second == least(fences \ {first})
             IN  IF second = first + 1 THEN Failure
                 ELSE JSONparse(SubSeq(text, first + 1, second - 1))

\* lines 336-339: an opening fence at the start and a fence at the end removed
cleanedText(text) ==
    LET opened == IF Len(text) > 0 /\ text[1] = "fence" THEN Tail(text) ELSE text
    IN  IF Len(opened) > 0 /\ opened[Len(opened)] = "fence"
        THEN SubSeq(opened, 1, Len(opened) - 1) ELSE opened

\* lines 373-377: the complete properties of the text, each with the comma
\* that follows it, joined with commas between "{" and "}"
validJson(jsonText) ==
    LET at == {i \in 1..Len(jsonText) : jsonText[i] \in Properties}
        matched(i) == IF i < Len(jsonText) /\ jsonText[i + 1] = ","
                      THEN <<jsonText[i], ",">> ELSE <<jsonText[i]>>
        joined[i \in 0..Len(jsonText)] ==
            IF i = 0 THEN <<>>
            ELSE IF i \notin at THEN joined[i - 1]
            ELSE IF joined[i - 1] = <<>> THEN matched(i)
            ELSE joined[i - 1] \o <<",">> \o matched(i)
    IN  <<"{">> \o joined[Len(jsonText)] \o <<"}">>

\* lines 352-392: a text that starts with "{" and has no "}" is completed with
\* as many "}" as it has "{"; the reconstruction from its complete properties
\* is parsed, then the completed text itself
truncatedRepair(text) ==
    IF Len(text) = 0 \/ text[1] # "{" \/ \E i \in 1..Len(text) : text[i] = "}"
    THEN Failure
    ELSE LET openBraces == Cardinality({i \in 1..Len(text) : text[i] = "{"})
             jsonText == text \o [i \in 1..openBraces |-> "}"]
             rebuilt == IF \E i \in 1..Len(jsonText) : jsonText[i] \in Properties
                        THEN JSONparse(validJson(jsonText)) ELSE Failure
         IN  IF rebuilt.ok THEN rebuilt ELSE JSONparse(jsonText)

\* lines 397-478: the known fields whose pattern matches somewhere in the text;
\* lines 481-486: an empty collection is a failure
extractedFields(text) ==
    LET fields == {piece \in Properties : \E i \in 1..Len(text) : text[i] = piece}
    IN  IF fields # {} THEN Object(fields) ELSE Failure

\* the five stages, each by itself
Stages(text) ==
    <<fencedBlock(text), JSONparse(text), JSONparse(cleanedText(text)),
      truncatedRepair(text), extractedFields(text)>>

\* parseJSONFromLLMResponse: the nested try blocks of lines 318-491
parseJSONFromLLMResponse(responseText) ==
    LET inFence == fencedBlock(responseText)
    IN  IF inFence.ok THEN inFence
        ELSE LET raw0 == JSONparse(responseText)
             IN  IF raw0.ok THEN raw0
                 ELSE LET cleaned == JSONparse(cleanedText(responseText))
                      IN  IF cleaned.ok THEN cleaned
                          ELSE LET repaired == truncatedRepair(responseText)
                               IN  IF repaired.ok THEN repaired
                                   ELSE extractedFields(responseText)

\* no response is being parsed
NoResponse == [pc |-> "none", responseText |-> <<>>, result |-> Failure]

\* ------------------------------------------------------------ enhancement pass
\* A title is followed as a sequence of words; white space is not followed.
\* A description is followed by how often each of a few keywords occurs in it.
\* A text field that is missing is the empty string.

\* word.charAt(0).toUpperCase() + word.slice(1)
capitalize(word) ==
    CASE word = "roads" -> "Roads"
      [] word = "it" -> "It"
      [] word = "lima" -> "Lima"
      [] word = "peru" -> "Peru"
      [] OTHER -> word

\* word.toLowerCase()
lowerCase(word) ==
    CASE word = "Roads" -> "roads"
      [] word \in {"It", "IT"} -> "it"
      [] word = "Information" -> "information"
      [] word = "Technology" -> "technology"
      [] word = "Re:" -> "re:"
      [] OTHER -> word

\* step 5 (lines 597-645): a standalone IT is expanded
expandAcronyms(title) ==
    LET expanded[i \in 0..Len(title)] ==
            IF i = 0 THEN <<>>
            ELSE IF title[i] = "IT" THEN expanded[i - 1] \o <<"Information", "Technology">>
            ELSE Append(expanded[i - 1], title[i])
    IN  expanded[Len(title)]

\* step 6 (lines 647-651): a word (a match of \w+) repeated after itself, in
\* any case, is kept once
removeRepeats(title) ==
    LET plainWords == {"roads", "Roads", "it", "It", "IT", "Information", "Technology"}
        kept[i \in 0..Len(title)] ==
            IF i = 0 THEN <<>>
            ELSE IF /\ i > 1
                    /\ title[i] \in plainWords
                    /\ lowerCase(title[i]) = lowerCase(title[i - 1])
                 THEN kept[i - 1]
                 ELSE Append(kept[i - 1], title[i])
    IN  kept[Len(title)]

\* step 10 (lines 685-694): the official reference number, unless the title
\* includes it, or else the number found, is appended in parentheses
appendReference(title, refNumbers, reference_number) ==
    LET inParentheses(number) == IF number = "REF-9" THEN "(REF-9)" ELSE "(12345)"
    IN  IF refNumbers # <<>> /\ reference_number # ""
        THEN IF \E i \in 1..Len(title) :
                    title[i] \in {reference_number, inParentheses(reference_number)}
             THEN title ELSE Append(title, inParentheses(reference_number))
        ELSE IF refNumbers # <<>> THEN Append(title, inParentheses(refNumbers[1]))
        ELSE title

\* enhanceTenderTitles (lines 499-736). Step 1 (lines 511-544): each prefix
\* pattern is applied once, and of the words followed only a leading "Re:"
\* matches one. Step 2 (lines 546-552): a number in parentheses at the end is
\* removed. Step 3 (lines 555-573): the reference numbers are taken out of the
\* title. Step 11 (lines 696-699): the first letter is capitalized. Step 13
\* (lines 711-720): a lower-case "it" is written IT. Steps 4, 7, 8, 9 and 12
\* leave every title followed as it is: each keeps a lower-case letter or is
\* shorter than eleven characters, none ends in dots or punctuation, and none
\* starts with one of the generic words.
enhanceTenderTitles(normalizedData) ==
    IF normalizedData.title = <<>> THEN normalizedData
    ELSE LET given == normalizedData.title
             unprefixed == IF given[1] = "Re:" THEN Tail(given) ELSE given
             stripped == IF Len(unprefixed) > 0 /\ unprefixed[Len(unprefixed)] = "(12345)"
                         THEN SubSeq(unprefixed, 1, Len(unprefixed) - 1) ELSE unprefixed
             refNumbers == SelectSeq(stripped, LAMBDA word : word = "12345")
             moved == SelectSeq(stripped, LAMBDA word : word # "12345")
             ended == appendReference(removeRepeats(expandAcronyms(moved)), refNumbers,
                                      normalizedData.reference_number)
             title == IF Len(ended) > 0 THEN <<capitalize(ended[1])>> \o Tail(ended)
                      ELSE ended
         IN  [normalizedData EXCEPT
                !.title = [i \in 1..Len(title) |-> IF title[i] = "it" THEN "IT" ELSE title[i]]]

\* the sectors and the tender types in the order of their tables (lines
\* 857-874 and 1036-1049), those no keyword followed belongs to left out
Sectors == <<"Information Technology", "Healthcare", "Education", "Retail & Consumer Goods">>

TenderTypes == <<"Service Contract", "Supply Contract">>

\* lines 883-897: the matches of each sector's keywords in the description, and
\* twice those in the title in lower case
sectorCount(normalizedData) ==
    LET title == normalizedData.title
        inTitle == Cardinality({i \in 1..Len(title) :
                                   lowerCase(title[i]) \in {"it", "technology"}})
    IN  <<2 * inTitle, normalizedData.description.health,
          normalizedData.description.school, normalizedData.description.goods>>

\* lines 1057-1070: for each tender type, one for each of its keywords that the
\* description includes; no title followed includes one
tenderTypeScore(normalizedData) ==
    <<IF normalizedData.description.services > 0 THEN 1 ELSE 0,
      IF normalizedData.description.goods > 0 THEN 1 ELSE 0>>

\* the forEach of lines 883-903 and 1057-1076: the first category with the
\* highest count above zero, with that count
best(categories, counts) ==
    LET scan[i \in 0..Len(categories)] ==
            IF i = 0 THEN [name |-> "", count |-> 0]
            ELSE IF counts[i] > scan[i - 1].count
                 THEN [name |-> categories[i], count |-> counts[i]]
                 ELSE scan[i - 1]
    IN  scan[Len(categories)]

\* the least count for which a sector is set (line 906)
sectorThreshold == 2

\* step 9 (lines 854-909); the description is a non-empty string if it
\* mentions a word
fillSector(normalizedData) ==
    LET found == best(Sectors, sectorCount(normalizedData))
        description == normalizedData.description
    IN  IF /\ normalizedData.sector = ""
           /\ \E word \in DOMAIN description : description[word] > 0
           /\ found.count >= sectorThreshold
        THEN found.name ELSE normalizedData.sector

\* step 13 (lines 1034-1081)
fillTenderType(normalizedData) ==
    LET found == best(TenderTypes, tenderTypeScore(normalizedData))
    IN  IF normalizedData.tender_type = "" /\ found.name # ""
        THEN found.name ELSE normalizedData.tender_type

\* fillMissingFields (lines 743-1161), for the fields followed: steps 9 and
\* 13, step 15 (lines 1128-1131) for the city and step 16 (lines 1133-1152)
\* for the country; no title or description followed matches a pattern of
\* steps 6, 8, 10, 11, 12 and 14
fillMissingFields(normalizedData) ==
    [normalizedData EXCEPT !.sector = fillSector(normalizedData),
                           !.tender_type = fillTenderType(normalizedData),
                           !.city = capitalize(@),
                           !.country = IF @ = "usa" THEN "USA" ELSE capitalize(@)]

\* no tender is being enhanced
NoTender ==
    LET data == [title |-> <<>>, reference_number |-> "",
                 description |-> [health |-> 0, school |-> 0, services |-> 0, goods |-> 0],
                 sector |-> "", tender_type |-> "", city |-> "", country |-> ""]
    IN  [pc |-> "none", passes |-> 0, before |-> data, data |-> data, outputs |-> <<>>]

\* no decision yet
NoDecision == [needsLLM |-> FALSE, reason |-> "none"]

\* nobody calls the decision engine on its own
NoEngine == [tender |-> "none", sourceTable |-> "none", calls |-> 0,
             first |-> NoDecision, last |-> NoDecision]

InitWith(runs, ovl, tables, contents, columns, stamps, stores, args) ==
    /\ tableName \in tables
    /\ hasLastProcessed \in columns
    /\ raw \in {t \in RawTables :
                   /\ t[1].updated_at \in stamps
                   /\ t[1].content \in contents
                   /\ tableName # "ungm" => t[1].content = "minimal"
                   /\ tableName # "wb" => t[1].updated_at = MaxTs
                   /\ runs > 1 => t[2].content = "minimal"}
    /\ lastProcessed = {}
    /\ unified \in stores
    /\ tableName # "wb" => \A row \in Rows(unified) : row.updated_at # NoTs
    /\ raw[2].content # "minimal" => unified = EmptyBag /\ ~hasLastProcessed
    /\ runsLeft = runs
    /\ overlap = ovl
    /\ plan = args
    /\ run = [r \in Runs |-> RunInit]
    /\ normalizationStats = NoStats
    /\ engine = NoEngine
    /\ record = NoRecord
    /\ consoleLog = IF runs > 1 THEN "unobserved" ELSE "original"
    /\ allSources = NoAllSources
    /\ response = NoResponse
    /\ enhancement = NoTender

\* one run, any table, any arguments; the grid of raw against stored timestamps
\* is explored on the table whose normalization needs no completion service
Init == InitWith(1, FALSE, Tables, Contents, BOOLEAN, 0..MaxTs, InitStores, Args)

Spec == Init /\ [][Next]_vars

\* two runs in succession, without forceReprocess or pre-filtered tenders
InitRerun ==
    InitWith(2, FALSE, {"ungm"}, Contents, BOOLEAN, {MaxTs},
             {st \in InitStores : \A row \in Rows(st) : row.updated_at # NoTs},
             {a \in Args : ~a.forceReprocess /\ ~a.pre})

SpecRerun == InitRerun /\ [][Next]_vars

\* two runs that may overlap: on an empty store and a table that holds an id
\* twice, or on a store that holds the first row's id and a table of distinct ids
InitOverlap ==
    /\ InitWith(2, TRUE, {"ungm"}, {"foreign"}, {TRUE}, {MaxTs},
                {st \in InitStores : \A row \in Rows(st) : row.updated_at # NoTs},
                {a \in Args : a.limit = 0 /\ ~a.forceReprocess /\ ~a.pre})
    /\ (unified = EmptyBag) <=> (raw[2].source_id = 1)

SpecOverlap == InitOverlap /\ [][Next]_vars

\* ------------------------------------------------------------ the decision engine alone
\* A caller evaluates one record of one source again and again, while other
\* callers move the process-wide counters.

\* one more call of evaluateNormalizationNeeds on the caller's record
EvaluateCall ==
    /\ engine.sourceTable # "none"
    /\ engine.calls < MaxCalls
    /\ LET result == evaluateNormalizationNeeds(engine.tender, engine.sourceTable)
       IN  /\ engine' = [engine EXCEPT !.calls = @ + 1,
                                       !.first = IF engine.calls = 0 THEN result ELSE @,
                                       !.last = result]
           /\ normalizationStats' =
                  trackNormalization(normalizationStats, engine.sourceTable, result)
    /\ UNCHANGED <<tableName, hasLastProcessed, raw, lastProcessed, unified, runsLeft,
                   overlap, plan, run, record, consoleLog, allSources, response, enhancement>>

\* a call of evaluateNormalizationNeeds on a World Bank record by another caller
OtherCall ==
    /\ engine.sourceTable # "none"
    /\ normalizationStats.sources["wb"] < MaxCalls
    /\ normalizationStats' =
           trackCalls(normalizationStats, [content |-> "minimal"], "wb", 1)
    /\ UNCHANGED <<tableName, hasLastProcessed, raw, lastProcessed, unified, runsLeft,
                   overlap, plan, run, engine, record, consoleLog, allSources, response, enhancement>>

NextDecide == EvaluateCall \/ OtherCall

\* no run; any record of any source; counters fresh or just below the
\* hundredth call that logs them
InitDecide ==
    /\ tableName = "wb"
    /\ hasLastProcessed = FALSE
    /\ raw \in {t \in RawTables : t[1].updated_at = MaxTs /\ t[2].source_id = 2
                                   /\ t[1].content = "minimal"}
    /\ lastProcessed = {}
    /\ unified = EmptyBag
    /\ runsLeft = 0
    /\ overlap = FALSE
    /\ plan = {}
    /\ run = [r \in Runs |-> RunInit]
    /\ normalizationStats \in
           {NoStats, [total |-> 99, skippedLLM |-> 99, sources |-> [src \in Sources |-> 0]]}
    /\ \E f \in Features, src \in Sources :
           engine = [NoEngine EXCEPT !.tender = f, !.sourceTable = src]
    /\ record = NoRecord
    /\ consoleLog = "original"
    /\ allSources = NoAllSources
    /\ response = NoResponse
    /\ enhancement = NoTender

SpecDecide == InitDecide /\ [][NextDecide]_vars

\* ------------------------------------------------------------ the fields of one record
\* One record of one source is followed from the raw row, through the
\* normalizer and the adapter, to the clean-up and the write of
\* processTendersFromTable.

\* adapter.processTender up to the end of the normalizer call
\* (BaseSourceAdapter.js lines 57-65): mapFields, then normalizeTender.  The
\* fast path of a dedicated source throws, in the retry of line 545 as well,
\* and the record is counted as an error (lines 661-664).
NormalizeRecord ==
    /\ record.pc = "raw"
    /\ record' =
         IF ~record.useLLM /\ fastNormalizeTender([content |-> "minimal"],
                                                  record.sourceTable) = "throw"
         THEN [record EXCEPT !.pc = "error"]
         ELSE [record EXCEPT
                 !.pc = "normalized",
                 !.mappedFields =
                     [status |-> mapStatus(record.sourceTable, record.tender.status)],
                 !.normalizedTender =
                     IF record.useLLM THEN llmFields(record.tender, record.answer)
                     ELSE fastFields(record.tender)]
    /\ UNCHANGED <<tableName, hasLastProcessed, raw, lastProcessed, unified, runsLeft,
                   overlap, plan, run, normalizationStats, engine, consoleLog, allSources, response, enhancement>>

\* the adapter fills what the normalizer left falsy from its mapped fields
\* (BaseSourceAdapter.js lines 68-72)
ApplyDefaults ==
    /\ record.pc = "normalized"
    /\ record' =
         [record EXCEPT
            !.pc = "adapted",
            !.normalizedTender =
                [key \in DOMAIN @ |->
                    IF /\ key \in DOMAIN record.mappedFields
                       /\ Falsy(@[key])
                       /\ record.mappedFields[key].t # "null"
                    THEN record.mappedFields[key] ELSE @[key]]]
    /\ UNCHANGED <<tableName, hasLastProcessed, raw, lastProcessed, unified, runsLeft,
                   overlap, plan, run, normalizationStats, engine, consoleLog, allSources, response, enhancement>>

\* the clean-up of lines 571-607: the loop over the keys, the error status
\* check, then source_table and source_id
CleanUp ==
    /\ record.pc = "adapted"
    /\ LET normalizedTender == cleanUp(record.normalizedTender)
       IN  record' =
             IF normalizedTender.status = Word("error")
             THEN [record EXCEPT !.pc = "error", !.normalizedTender = normalizedTender]
             ELSE [record EXCEPT
                     !.pc = "clean",
                     !.normalizedTender =
                         withSource(normalizedTender, record.sourceTable,
                                    sourceIdOf(record.tender, record.sourceTable))]
    /\ UNCHANGED <<tableName, hasLastProcessed, raw, lastProcessed, unified, runsLeft,
                   overlap, plan, run, normalizationStats, engine, consoleLog, allSources, response, enhancement>>

\* the record is handed to the store, by update when the key is in the
\* existing map and by insert otherwise (lines 609-629)
WriteRecord ==
    /\ record.pc = "clean"
    /\ \E existing \in BOOLEAN :
           record' = [record EXCEPT !.pc = "written",
                                    !.op = IF existing THEN "update" ELSE "insert"]
    /\ UNCHANGED <<tableName, hasLastProcessed, raw, lastProcessed, unified, runsLeft,
                   overlap, plan, run, normalizationStats, engine, consoleLog, allSources, response, enhancement>>

NextFields == NormalizeRecord \/ ApplyDefaults \/ CleanUp \/ WriteRecord

\* the numbers a record or an answer carries as numbers
Numbers ==
    {Num(0), Num(Unit), Num(MaxAbs * Unit), Num((MaxAbs + 1) * Unit),
     Num(-(MaxAbs + 1) * Unit)}

\* every money value: null, a number, or a string of at most MaxLen characters
MoneyValues == {Null} \cup Numbers \cup {Spelled(c) : c \in Strings}

\* a few money values, for the records whose text fields vary
SomeMoney == {Null, Num(Unit), Spelled(<<"$", "1">>)}

StatusValues ==
    {Null} \cup {Word(w) : w \in {"", "active", "Open", "cancelled", "pending", "error"}}

CityValues == {Null, EmptyString, Word("Lima")}

\* the raw records and answers followed: either the money varies over every
\* value and the text is fixed, or the text varies and the money over a few
RawFields ==
    [id : {Word("7")}, status : {Word("active")}, city : {Null},
     value : MoneyValues, deadline : {"none"}, described : {Null, Num(Unit)}]
    \cup
    [id : {EmptyString, Word("7")}, status : StatusValues, city : CityValues,
     value : SomeMoney, deadline : {"none", "past"}, described : {Null}]

AnswerFields ==
    [status : {Word("Open")}, city : {Word("Lima")}, estimated_value : MoneyValues,
     award_value : {Null, Num((MaxAbs + 1) * Unit)}]
    \cup
    [status : StatusValues, city : CityValues, estimated_value : SomeMoney,
     award_value : {Null}]

\* the record a fast path reads no answer for
NoAnswer == [status |-> Null, city |-> Null, estimated_value |-> Null,
             award_value |-> Null]

\* no run; one record of SAM.gov or UNGM; the rules send a UNGM record to
\* the completion service or to the fast path, a SAM.gov record always to the
\* fast path; a record sent to the completion service has plain raw money
InitFields ==
    /\ tableName = "wb"
    /\ hasLastProcessed = FALSE
    /\ raw = <<>>
    /\ lastProcessed = {}
    /\ unified = EmptyBag
    /\ runsLeft = 0
    /\ overlap = FALSE
    /\ plan = {}
    /\ run = [r \in Runs |-> RunInit]
    /\ normalizationStats = NoStats
    /\ engine = NoEngine
    /\ consoleLog = "original"
    /\ allSources = NoAllSources
    /\ response = NoResponse
    /\ enhancement = NoTender
    /\ \E src \in {"sam_gov", "ungm"}, useLLM \in BOOLEAN,
          tender \in RawFields, answer \in AnswerFields \cup {NoAnswer} :
           /\ useLLM => src = "ungm" /\ answer # NoAnswer /\ tender.value = Null
           /\ ~useLLM => answer = NoAnswer
           /\ record = [NoRecord EXCEPT !.pc = "raw", !.sourceTable = src,
                                        !.useLLM = useLLM, !.tender = tender,
                                        !.answer = answer]

SpecFields == InitFields /\ [][NextFields]_vars

\* ------------------------------------------------------------ the round-robin over all sources
\* One call of processTendersFromAllSources; each per-source batch is a
\* processTendersFromTable call, taken here by what it returns.

\* one step of a for...of loop over sources (lines 170-199 and 210-247): the
\* batch of the next source is awaited and its result added to the totals; in
\* the limited mode the counts are added as they are, in the unlimited mode
\* with || 0; in continuous mode a source that yielded nothing is spliced
\* out of the array the loop is iterating
ProcessSource ==
    /\ allSources.pc \in {"round", "unlimited"}
    /\ allSources.index < Len(allSources.sources)
    /\ \E result \in BatchResults :
         LET me == allSources
             sourceTable == me.sources[me.index + 1]
             add(total, value) == IF me.pc = "round" THEN Plus(total, value)
                                  ELSE PlusOrZero(total, value)
             totalResults == [processed |-> add(me.totalResults.processed, result.processed),
                              skipped |-> add(me.totalResults.skipped, result.skipped),
                              errors |-> add(me.totalResults.errors, result.errors)]
             nothing == /\ me.pc = "round"
                        /\ me.continuous
                        /\ result.success
                        /\ result.processed + result.skipped = 0
             sources == IF nothing THEN splice(me.sources, sourceTable) ELSE me.sources
         IN  allSources' =
                 [me EXCEPT !.index = @ + 1,
                            !.totalResults = totalResults,
                            !.visited = Append(@, sourceTable),
                            !.succeeded = IF result.success THEN @ + result.processed ELSE @,
                            !.sources = sources,
                            !.pc = IF nothing /\ Len(sources) = 0 THEN "returned" ELSE @]
    /\ UNCHANGED <<tableName, hasLastProcessed, raw, lastProcessed, unified, runsLeft,
                   overlap, plan, run, normalizationStats, engine, record, consoleLog, response, enhancement>>

\* the for...of loop is exhausted: in the limited mode remainingTenders is
\* reduced by the batch size and the while condition tested (lines 206-207,
\* 249), in the unlimited mode the function goes on to return
RoundEnd ==
    /\ allSources.pc \in {"round", "unlimited"}
    /\ allSources.index >= Len(allSources.sources)
    /\ allSources.rounds < MaxRounds
    /\ LET me == allSources
           currentBatchSize == Min(me.batchSize, me.remainingTenders)
           remainingTenders == me.remainingTenders - currentBatchSize
       IN  allSources' =
               IF me.pc = "unlimited"
               THEN [me EXCEPT !.pc = "returned", !.rounds = @ + 1]
               ELSE [me EXCEPT !.remainingTenders = remainingTenders,
                               !.rounds = @ + 1,
                               !.index = 0,
                               !.visited = <<>>,
                               !.pc = IF remainingTenders > 0 THEN "round" ELSE "returned"]
    /\ UNCHANGED <<tableName, hasLastProcessed, raw, lastProcessed, unified, runsLeft,
                   overlap, plan, run, normalizationStats, engine, record, consoleLog, response, enhancement>>

NextAllSources == ProcessSource \/ RoundEnd

\* no run of a single table; a caller has called processTendersFromAllSources
\* with any tendersPerSource and either mode (lines 127-128, 202-205)
InitAllSources ==
    /\ tableName = "wb"
    /\ hasLastProcessed = FALSE
    /\ raw = <<>>
    /\ lastProcessed = {}
    /\ unified = EmptyBag
    /\ runsLeft = 0
    /\ overlap = FALSE
    /\ plan = {}
    /\ run = [r \in Runs |-> RunInit]
    /\ normalizationStats = NoStats
    /\ engine = NoEngine
    /\ record = NoRecord
    /\ consoleLog = "unobserved"
    /\ \E tendersPerSource \in 0..MaxPerSource, continuous \in BOOLEAN :
           allSources =
               [NoAllSources EXCEPT
                   !.pc = IF tendersPerSource <= 0 THEN "unlimited" ELSE "round",
                   !.tendersPerSource = tendersPerSource,
                   !.continuous = continuous,
                   !.batchSize = batchSizeOf(tendersPerSource),
                   !.remainingTenders = tendersPerSource,
                   !.sources = RegisteredSources]
    /\ response = NoResponse
    /\ enhancement = NoTender

SpecAllSources == InitAllSources /\ [][NextAllSources]_vars

\* ------------------------------------------------------------ parsing one response
\* normalizeTender hands the text of the completion to the parser (line 1973)
ParseResponse ==
    /\ response.pc = "received"
    /\ LET result == parseJSONFromLLMResponse(response.responseText)
       IN  response' = [response EXCEPT !.result = result,
                                        !.pc = IF result.ok THEN "returned" ELSE "thrown"]
    /\ UNCHANGED <<tableName, hasLastProcessed, raw, lastProcessed, unified, runsLeft,
                   overlap, plan, run, normalizationStats, engine, record, consoleLog,
                   allSources, enhancement>>

NextParse == ParseResponse

\* a response of up to MaxPieces pieces, a cut-off property only at its end
InitParse ==
    /\ tableName = "wb"
    /\ hasLastProcessed = FALSE
    /\ raw = <<>>
    /\ lastProcessed = {}
    /\ unified = EmptyBag
    /\ runsLeft = 0
    /\ overlap = FALSE
    /\ plan = {}
    /\ run = [r \in Runs |-> RunInit]
    /\ normalizationStats = NoStats
    /\ engine = NoEngine
    /\ record = NoRecord
    /\ consoleLog = "unobserved"
    /\ allSources = NoAllSources
    /\ enhancement = NoTender
    /\ \E text \in UNION {[1..n -> Pieces] : n \in 0..MaxPieces} :
           /\ \A i \in 1..Len(text) : text[i] = "cut" => i = Len(text)
           /\ response = [NoResponse EXCEPT !.pc = "received", !.responseText = text]

SpecParse == InitParse /\ [][NextParse]_vars

\* ------------------------------------------------------------ enhancing one tender
\* the title enhancement of a pass (normalizeTender, line 1981)
EnhanceTitles ==
    /\ enhancement.pc \in {"input", "filled"}
    /\ enhancement.passes < MaxPasses
    /\ enhancement' = [enhancement EXCEPT !.pc = "titled", !.data = enhanceTenderTitles(@)]
    /\ UNCHANGED <<tableName, hasLastProcessed, raw, lastProcessed, unified, runsLeft,
                   overlap, plan, run, normalizationStats, engine, record, consoleLog,
                   allSources, response>>

\* the field filling of a pass (normalizeTender, line 1982)
FillMissing ==
    /\ enhancement.pc = "titled"
    /\ LET filled == fillMissingFields(enhancement.data)
       IN  enhancement' = [enhancement EXCEPT !.pc = "filled",
                                    !.passes = @ + 1,
                                    !.before = enhancement.data,
                                    !.data = filled,
                                    !.outputs = Append(@, filled)]
    /\ UNCHANGED <<tableName, hasLastProcessed, raw, lastProcessed, unified, runsLeft,
                   overlap, plan, run, normalizationStats, engine, record, consoleLog,
                   allSources, response>>

NextEnhance == EnhanceTitles \/ FillMissing

\* the tenders followed. A title is up to two "Re:" before one to MaxWords
\* words, of which at most one is a reference number. Either the title varies
\* and the other fields are few, or the other fields vary and the titles are few
Tenders ==
    LET titles ==
            {prefix \o body :
                prefix \in {<<>>, <<"Re:">>, <<"Re:", "Re:">>},
                body \in {b \in UNION {[1..n -> {"roads", "it", "12345"}] : n \in 1..MaxWords} :
                             Cardinality({i \in 1..Len(b) : b[i] = "12345"}) <= 1}}
        none == NoTender.data.description
    IN  [title : titles, reference_number : {"", "REF-9"},
         description : {none, [none EXCEPT !.health = MaxMentions]},
         sector : {""}, tender_type : {""}, city : {""}, country : {""}]
        \cup
        [title : {<<>>, <<"roads">>, <<"roads", "it">>}, reference_number : {""},
         description : [health : 0..MaxMentions, school : 0..MaxMentions,
                        services : 0..1, goods : 0..1],
         sector : {"", "Energy"}, tender_type : {"", "Consulting Services"},
         city : {"", "lima", "Lima"}, country : {"", "usa", "Peru"}]

InitEnhance ==
    /\ tableName = "wb"
    /\ hasLastProcessed = FALSE
    /\ raw = <<>>
    /\ lastProcessed = {}
    /\ unified = EmptyBag
    /\ runsLeft = 0
    /\ overlap = FALSE
    /\ plan = {}
    /\ run = [r \in Runs |-> RunInit]
    /\ normalizationStats = NoStats
    /\ engine = NoEngine
    /\ record = NoRecord
    /\ consoleLog = "unobserved"
    /\ allSources = NoAllSources
    /\ response = NoResponse
    /\ \E data \in Tenders :
           enhancement = [NoTender EXCEPT !.pc = "input", !.data = data, !.before = data]

SpecEnhance == InitEnhance /\ [][NextEnhance]_vars

\* ------------------------------------------------------------ properties

Recs == Runs \X (1..MaxCands)

Rec(x) == run[x[1]].rec[x[2]]

C2_NoStaleOverwrite ==
    \A x \in Recs :
        (~run[x[1]].forceReprocess /\ Rec(x).outcome = "updated") => ~Rec(x).stale

\* C3: of two runs in succession with forceReprocess = false on an unchanged
\* raw table, the second returns processed = 0.  Read in the claim's favour:
\* both runs are unlimited, and every record the first attempted was
\* processed, none by an update (so that nothing rests on a failed write or
\* on the store refreshing updated_at).
C3_SecondRunProcessesNothing ==
    \A r \in Runs :
        (/\ r # FirstRun
         /\ run[r].pc = "done"
         /\ run[r].after
         /\ run[r].limit <= 0
         /\ run[FirstRun].limit <= 0
         /\ run[FirstRun].processedCount = run[FirstRun].attemptCount
         /\ run[FirstRun].updatedCount = 0)
        => run[r].processedCount = 0

C5_TimeoutFallsBack ==
    \A x \in Recs :
        Rec(x).timedOut =>
            /\ Rec(x).outcome \in {"inserted", "updated"}
                  => Rec(x).method = "rule-based-fallback"
            /\ Rec(x).outcome = "error" => Rec(x).storeFail

\* C6: after a record's LLM call timed out at the orchestrator, no further
\* completion-service call is made for that record.
C6_NoCallAfterTimeout ==
    \A x \in Recs : Rec(x).timedOut => Rec(x).llmCalls <= 1

\* C7: with limit <= 0, a run that has returned attempted every candidate that
\* survived the freshness filter.
C7_UnlimitedAttemptsAll ==
    \A r \in Runs :
        (run[r].pc = "done" /\ run[r].limit <= 0)
        => run[r].attemptCount = Len(run[r].tendersToProcess)

\* C8: with limit > 0, the processed count never exceeds limit.
C8_ProcessedWithinLimit ==
    \A r \in Runs : run[r].limit > 0 => run[r].processedCount <= run[r].limit

\* C9: a store write failure other than a uniqueness violation on insert is
\* counted as an error of the record, never as a skip, and no further write is
\* attempted for the record.
C9_StoreFailureIsError ==
    \A x \in Recs :
        Rec(x).storeFail => Rec(x).outcome = "error" /\ ~Rec(x).retried

\* C10: the fallback count a run returns is the number of its records that
\* were downgraded from the LLM path, and its fastNormalization count the
\* number of its records normalized by the fast path.
C10_CountsMatch ==
    \A r \in Runs :
        run[r].pc = "done" =>
            /\ run[r].fallbackCount = run[r].downgrades
            /\ run[r].fastNormalizationCount = run[r].fastRecords

\* C11: with forceReprocess = false, a candidate whose source id is in the
\* unified store and whose own updated_at is absent is skipped by the run: it
\* is not among the records the run goes on to update or insert.
C11_AbsentTimestampSkipped ==
    \A r \in Runs :
        \A k \in 1..Len(run[r].tendersToProcess) :
            ~(/\ ~run[r].forceReprocess
              /\ Tender(r, k).updated_at = NoTs
              /\ InMap(run[r].existingTenderMap, getSourceId(Tender(r, k))))

C18_FirstMatchWins ==
    LET f == FeaturesOf(engine.tender)
        src == engine.sourceTable
        en == f.language = "en"
        first ==
            IF src \in {"wb", "adb", "afd_tenders"} THEN "fast-source"
            ELSE IF src \in {"sam_gov", "un_procurement"} THEN "source"
            ELSE IF \/ src = "dgmarket" /\ en
                    \/ src = "iadb" /\ (en \/ f.english)
                    \/ src = "ted" /\ f.english THEN "source-language"
            ELSE IF f.missing <= 2 THEN "complete"
            ELSE IF f.missing <= 5 /\ (en \/ f.english) THEN "english-some-missing"
            ELSE IF en \/ f.strongly THEN "strongly-english"
            ELSE IF f.minimal THEN "minimal"
            ELSE IF f.huge THEN "huge"
            ELSE IF f.quality THEN "quality"
            ELSE "default"
    IN  engine.calls > 0 =>
            /\ engine.last.reason = first
            /\ engine.last.needsLLM = (first = "default")

\* C14: every record a run writes to the unified store has normalized_method
\* equal to one of llm, rule-based-fast, rule-based-fallback.
C14_MethodIsSet ==
    \A row \in Rows(unified) :
        row.from # 0 =>
            row.normalized_method \in {"llm", "rule-based-fast", "rule-based-fallback"}

\* C16: once a completion-service call of a run has failed with a quota or
\* billing error, the run makes no further completion-service call.
C16_QuotaSuppressesLLM ==
    \A r \in Runs : ~run[r].callAfterQuota

\* C19: a slow record does not delay the start of another candidate: while a
\* record waits for the completion service, no candidate that is still due
\* (the limit is positive and not reached) is held back behind it.
C19_SlowRecordDelaysNobody ==
    \A r \in Runs :
        \A j, k \in 1..Len(run[r].tendersToProcess) :
            (/\ run[r].pc = "chunk"
             /\ run[r].limit > 0
             /\ run[r].processedCount < run[r].limit
             /\ run[r].rec[j].pc \in {"norm", "retry"}
             /\ run[r].rec[j].llmCalls > 0
             /\ run[r].rec[k].pc = "wait")
            => k \in ChunkOf(r)

\* C20: at every moment of a run, the number of records whose processing has
\* started and not finished is at most the concurrency cap.
C20_InFlightWithinCap ==
    \A r \in Runs :
        Cardinality({k \in 1..MaxCands : run[r].rec[k].pc \notin {"wait", "done"}})
            <= concurrency

\* C12: no record handed to the store, by insert or by update, has a
\* top-level field whose value is the empty string.
C12_NoEmptyStringWritten ==
    record.pc = "written" =>
        \A key \in DOMAIN record.normalizedTender :
            record.normalizedTender[key] # EmptyString

\* a record whose answer had an empty city and whose raw id was empty has been
\* written by update, with a null city
C12_Witness ==
    /\ record.pc = "written"
    /\ record.op = "update"
    /\ record.useLLM
    /\ record.answer.city = EmptyString
    /\ record.tender.id = EmptyString
    /\ record.normalizedTender.city = Null

\* C13: every financial field of a record handed to the store is null or a
\* number of magnitude at most the range limit.
C13_FinancialInRange ==
    record.pc = "written" =>
        \A key \in schemaFields \cap DOMAIN record.normalizedTender :
            \/ record.normalizedTender[key] = Null
            \/ /\ record.normalizedTender[key].t = "num"
               /\ Abs(record.normalizedTender[key].n) <= MaxAbs * Unit

\* C15: the status of every record handed to the store is null or one of
\* Open, Closed, Awarded, Canceled.
C15_StatusInClosedSet ==
    record.pc = "written" =>
        record.normalizedTender.status \in
            {Null, Word("Open"), Word("Closed"), Word("Awarded"), Word("Canceled")}

\* C25: when a run has returned, console.log is the function it was before
\* the call.  Stated for the tables whose records all wait for the completion
\* service, where a record's normalization does overlap with its neighbour's.
C25_ConsoleLogRestored ==
    (/\ \E r \in Runs : run[r].pc = "done"
     /\ \A r \in Runs : run[r].pc \in {"idle", "done", "failed"}
     /\ \A p \in 1..Len(raw) : asksLLM(raw[p], tableName, FALSE))
        => consoleLog = "original"

\* the in-flight records of a run: started and not yet returned
InFlight(r) == {k \in 1..MaxCands : run[r].rec[k].pc \notin {"wait", "done"}}

\* the records of a run that have started and whose outcome is not yet counted
Uncounted(r) == {k \in 1..MaxCands : run[r].rec[k].pc \in {"norm", "retry", "upd", "ins"}}

C27_AtMostOneWrite ==
    \A x \in Recs : Rec(x).writes <= 1

\* a record whose first completion-service call timed out has been written,
\* and the call left behind has settled
C27_Witness ==
    \E x \in Recs :
        Rec(x).timedOut /\ Rec(x).abandoned = "settled" /\ Rec(x).writes = 1

\* C28: in the limited mode the remaining-tenders counter is smaller after
\* every round of the loop: after n rounds it is at most tendersPerSource - n.
C28_RemainingDecreases ==
    (allSources.pc \in {"round", "returned"} /\ allSources.tendersPerSource > 0
     /\ ~allSources.continuous)
        => allSources.remainingTenders <= allSources.tendersPerSource - allSources.rounds

\* C29: the processed total a round-robin call returns is a number, the sum of
\* the processed counts of the batches that succeeded.
C29_TotalsAreSums ==
    (allSources.pc = "returned" /\ allSources.tendersPerSource > 0)
        => allSources.totalResults.processed = Number(allSources.succeeded)

\* C30: at the end of every round of the continuous mode, each source still
\* in rotation has been processed exactly once in the round.
C30_NoSourceSkipped ==
    (/\ allSources.pc = "round"
     /\ allSources.continuous
     /\ allSources.index >= Len(allSources.sources))
        => \A j \in 1..Len(allSources.sources) :
               Cardinality({h \in 1..Len(allSources.visited) :
                               allSources.visited[h] = allSources.sources[j]}) = 1

\* C21: the parser returns the result of the first repair stage that
\* succeeds, and it fails if and only if no stage yields any field.
C21_FailsIffNoField ==
    response.pc \in {"returned", "thrown"} =>
        LET stages == Stages(response.responseText)
            succeeded == {i \in 1..Len(stages) : stages[i].ok}
            first == CHOOSE i \in succeeded : \A j \in succeeded : i <= j
        IN  /\ response.result = IF succeeded = {} THEN Failure ELSE stages[first]
            /\ response.pc = "thrown" <=> \A i \in 1..Len(stages) : stages[i].fields = {}

\* C22: every field that holds a non-empty value before fillMissingFields
\* runs holds the same value afterwards.
C22_AdditiveOnly ==
    enhancement.pc = "filled" =>
        /\ enhancement.before.title # <<>>
               => enhancement.data.title = enhancement.before.title
        /\ \A field \in {"sector", "tender_type", "city", "country", "reference_number"} :
               enhancement.before[field] # ""
                   => enhancement.data[field] = enhancement.before[field]

\* C23: the enhancement pass applied to its own output yields that output.
C23_Idempotent ==
    Len(enhancement.outputs) >= 2 => enhancement.outputs[2] = enhancement.outputs[1]

\* C24: sector and tender-type inference leave the field empty whenever the
\* highest score is shared by two or more categories or is below the threshold.
C24_NoGuessOnTie ==
    LET highest(counts) == CHOOSE c \in {counts[i] : i \in 1..Len(counts)} :
                               \A i \in 1..Len(counts) : counts[i] <= c
        noConfidence(counts, threshold) ==
            \/ highest(counts) < threshold
            \/ Cardinality({i \in 1..Len(counts) : counts[i] = highest(counts)}) >= 2
    IN  enhancement.pc = "filled" =>
            /\ (/\ enhancement.before.sector = ""
                /\ noConfidence(sectorCount(enhancement.before), sectorThreshold))
                   => enhancement.data.sector = ""
            /\ (/\ enhancement.before.tender_type = ""
                /\ noConfidence(tenderTypeScore(enhancement.before), 1))
                   => enhancement.data.tender_type = ""

====
